---------------------------- MODULE Spec2Model ----------------------------
(***************************************************************************)
(* A model of src/api.py: the school-scoped access-request and moderated   *)
(* chat service.  The persisted tables (requests, chat_bans, messages),    *)
(* the in-memory ConnectionManager, the websocket endpoint and the         *)
(* detached broadcast tasks are the state; every HTTP handler is one       *)
(* atomic action (its body holds no await), the websocket endpoint and the *)
(* broadcast coroutine are split at their awaits.                          *)
(***************************************************************************)
EXTENDS Integers, Sequences, FiniteSets, TLC

VARIABLES
    requests,            \* table requests: rows in id order, id = position
    chat_bans,           \* table chat_bans: rows in id order, id = position
    messages,            \* table messages: rows in id order, id = position
    active_connections,  \* manager.active_connections: school -> list of channels
    sockets,             \* each websocket's endpoint coroutine: pc, school, token
    tasks,               \* detached broadcast tasks created by asyncio.create_task
    resp,                \* the most recent HTTP exchange
    last_broadcast       \* history: the most recently finished non-empty broadcast

vars == <<requests, chat_bans, messages, active_connections, sockets, tasks,
          resp, last_broadcast>>

store == <<requests, chat_bans, messages>>
registry == <<active_connections, sockets, last_broadcast>>

(***************************************************************************)
(* Bounds of the model.                                                    *)
(***************************************************************************)
MaxMessages == 2     \* rows of table messages, where the rows are the subject
MaxPosts == 1        \* rows of table messages, where channels or the gate are
MaxTasks == 1        \* broadcast tasks created and not yet finished
MaxHistory == 101    \* rows of table messages in SpecHistory: past the LIMIT

(***************************************************************************)
(* Program constants.                                                      *)
(***************************************************************************)
API_TOKEN == "api-secret"
ADMIN_TOKEN == "admin-secret"
ADMIN_SESSION == "1"
SYSTEM == "[SYSTEM]"
MIN_MESSAGE_LEN == 2
MAX_MESSAGE_LEN == 500
MIN_SYSTEM_LEN == 1
MAX_SYSTEM_LEN == 200
LIST_LIMIT == 100
POLICY_VIOLATION == 1008
\* the details of the errors send_message raises
CONTENT_REJECTED ==
    "Nachricht enthält unangemessene Inhalte. Bitte drücke dich anders aus."
NOT_APPROVED == "User not approved"
BANNED == "Du wurdest von der Chat-Funktion ausgeschlossen"
INVALID_LENGTH == "Nachricht muss 2-500 Zeichen haben"
NULL == "null"             \* None
NULL_TEXT == <<NULL>>      \* None where a text is expected

(***************************************************************************)
(* The values the requests of the model are drawn from.                    *)
(***************************************************************************)
Schools == {"east", "west"}
Users == {"alice", SYSTEM}
Channels == {"c1", "c2", "c3"}
Keys == {API_TOKEN, "wrong"}
Cookies == {ADMIN_SESSION, NULL}
Statuses == {"pending", "denied", "approved"}
\* RequestItem.status and StatusUpdate.status are free strings
SentStatuses == Statuses \cup {"owner"}
AdminKeys == {ADMIN_TOKEN, "wrong"}
\* the ids of the requests table and one that no row has
RequestIds == 1..(Cardinality(Users) + 1)

\* A text is the sequence of its characters.
Rep(c, n) == [i \in 1..n |-> c]
Bodies ==
    { <<"a">>, <<"h", "i">>, <<"a", " ">>, <<" ", "h", "i", " ">>,
      <<"A", "r", "s", "c", "h", "!">> }
SystemBodies == { <<" ">>, <<"a">> }
Hi == <<"h", "i">>
\* the bodies around the two length limits of send_message
BoundaryBodies ==
    { <<"a">>, <<"a", " ">>, Hi, Rep("a", MAX_MESSAGE_LEN),
      Rep("a", MAX_MESSAGE_LEN) \o <<" ">>, Rep("a", MAX_MESSAGE_LEN + 1) }
\* the (school, username) pairs an administrator bans
BanTargets == { <<"east", "alice">>, <<"west", "alice">> }

Min(S) == CHOOSE x \in S : \A y \in S : x <= y
Max(S) == CHOOSE x \in S : \A y \in S : x >= y
Range(s) == { s[i] : i \in DOMAIN s }

(***************************************************************************)
(* str.strip(): the text without its leading and trailing whitespace.      *)
(***************************************************************************)
Whitespace == {" ", "\t", "\n", "\r"}
RECURSIVE lstrip(_)
lstrip(s) ==
    IF s # <<>> /\ Head(s) \in Whitespace THEN lstrip(Tail(s)) ELSE s
RECURSIVE rstrip(_)
rstrip(s) ==
    IF s # <<>> /\ s[Len(s)] \in Whitespace
    THEN rstrip(SubSeq(s, 1, Len(s) - 1)) ELSE s
strip(s) == rstrip(lstrip(s))

(***************************************************************************)
(* check_word_filter: re.search of \b(fick|scheiße|arsch)\b, IGNORECASE    *)
(* (the built-in list, used when badwords.json is absent).                 *)
(***************************************************************************)
BAD_WORDS ==
    { <<"f", "i", "c", "k">>,
      <<"s", "c", "h", "e", "i", "ß", "e">>,
      <<"a", "r", "s", "c", "h">> }
Upper == {"A", "R", "S", "C", "H", "F", "I", "K", "E"}
lower(c) ==
    CASE c = "A" -> "a" [] c = "R" -> "r" [] c = "S" -> "s" [] c = "C" -> "c"
      [] c = "H" -> "h" [] c = "F" -> "f" [] c = "I" -> "i" [] c = "K" -> "k"
      [] c = "E" -> "e" [] OTHER -> c
WordChars ==
    {"a", "c", "e", "f", "h", "i", "k", "r", "s", "ß", "_"} \cup Upper
\* \b between s[i] and s[i+1] (i = 0: the start, i = Len(s): the end)
word_boundary(s, i) ==
    (i >= 1 /\ s[i] \in WordChars) # (i < Len(s) /\ s[i + 1] \in WordChars)
match_at(s, w, i) ==
    /\ i + Len(w) - 1 <= Len(s)
    /\ \A j \in DOMAIN w : lower(s[i + j - 1]) = w[j]
    /\ word_boundary(s, i - 1)
    /\ word_boundary(s, i + Len(w) - 1)
check_word_filter(message) ==
    \E w \in BAD_WORDS : \E i \in DOMAIN message : match_at(message, w, i)

(***************************************************************************)
(* verify_token, require_admin.                                            *)
(***************************************************************************)
verify_token(x_api_key) == x_api_key # NULL /\ x_api_key = API_TOKEN
verify_admin_token(x_admin_key) == x_admin_key # NULL /\ x_admin_key = ADMIN_TOKEN
require_admin(session) == session = ADMIN_SESSION

(***************************************************************************)
(* Responses.  An HTTPException and a returned value both end the request. *)
(***************************************************************************)
\* The last HTTP exchange: the handler, its status code and detail, the rows
\* of a listing and, for send_message, the request that was answered.
MessageItem(key, school, username, message) ==
    [key |-> key, school |-> school, username |-> username, message |-> message]
NoRequest == MessageItem(NULL, NULL, NULL, NULL_TEXT)
Response(op, code, detail) ==
    [op |-> op, code |-> code, detail |-> detail, rows |-> <<>>,
     request |-> NoRequest]
Answer(request, code, detail) ==
    [Response("send_message", code, detail) EXCEPT !.request = request]
NoResponse == Response("none", 0, "")

\* A faulty variant of create_task that runs the broadcast to its first send
\* before the handler answers; property C8 tells the two apart.
create_started_task(school, event) ==
    IF school \in DOMAIN active_connections /\ active_connections[school] # <<>>
    THEN Append(tasks, [school |-> school, event |-> event, pc |-> "sending",
                        snapshot |-> active_connections[school],
                        attempts |-> <<active_connections[school][1]>>,
                        disconnected |-> <<>>])
    ELSE tasks

(***************************************************************************)
(* asyncio.create_task(manager.broadcast(school, event)): the coroutine is *)
(* queued and has not run a step when the handler returns.                 *)
(***************************************************************************)
create_task(school, event) ==
    Append(tasks, [school |-> school, event |-> event, pc |-> "scheduled",
                   snapshot |-> <<>>, attempts |-> <<>>, disconnected |-> <<>>])

(***************************************************************************)
(* POST /new_request/ : the row takes the client's status; username UNIQUE *)
(***************************************************************************)
\* A faulty variant of username_taken that finds no row; property C12 tells
\* the two apart.
username_never_taken(username) == FALSE

username_taken(username) ==
    \E i \in DOMAIN requests : requests[i].username = username

create_request(key, school, username, status) ==
    /\ IF ~verify_token(key)
       THEN /\ resp' = Response("create_request", 401, "Invalid API Token")
            /\ UNCHANGED requests
       ELSE IF username_taken(username)
       THEN /\ resp' = Response("create_request", 409, "Username already exists")
            /\ UNCHANGED requests
       ELSE /\ requests' = Append(requests,
                   [school |-> school, username |-> username, status |-> status])
            /\ resp' = Response("create_request", 201, "Request created")
    /\ UNCHANGED <<chat_bans, messages, tasks, registry>>

(***************************************************************************)
(* PATCH /update_request/{request_id}                                      *)
(***************************************************************************)
update_status(admin_key, request_id, status) ==
    /\ IF ~verify_admin_token(admin_key)
       THEN /\ resp' = Response("update_status", 401, "Invalid Admin Token")
            /\ UNCHANGED requests
       ELSE IF status \notin {"pending", "denied", "approved"}
       THEN /\ resp' = Response("update_status", 400,
                       "Status must be 'pending', 'denied' or 'approved'")
            /\ UNCHANGED requests
       ELSE IF request_id \notin DOMAIN requests
       THEN /\ resp' = Response("update_status", 404, "Request not found")
            /\ UNCHANGED requests
       ELSE /\ requests' = [requests EXCEPT ![request_id].status = status]
            /\ resp' = Response("update_status", 200, "Request updated")
    /\ UNCHANGED <<chat_bans, messages, tasks, registry>>

\* A faulty variant of admin_update_request in which a denied request stays
\* denied; property C15 tells the two apart.
admin_update_request_final(session, request_id, status) ==
    /\ IF ~require_admin(session)
       THEN /\ resp' = Response("admin_update_request", 401,
                                "Not authenticated as admin")
            /\ UNCHANGED requests
       ELSE IF status \notin {"pending", "approved", "denied"}
       THEN /\ resp' = Response("admin_update_request", 400, "Invalid status")
            /\ UNCHANGED requests
       ELSE IF request_id \notin DOMAIN requests
       THEN /\ resp' = Response("admin_update_request", 404, "Request not found")
            /\ UNCHANGED requests
       ELSE /\ requests' = [requests EXCEPT ![request_id].status =
                               IF @ = "denied" THEN @ ELSE status]
            /\ resp' = Response("admin_update_request", 303, "/admin/requests")
    /\ UNCHANGED <<chat_bans, messages, tasks, registry>>

(***************************************************************************)
(* POST /admin/requests/{request_id}/update                                *)
(***************************************************************************)
admin_update_request(session, request_id, status) ==
    /\ IF ~require_admin(session)
       THEN /\ resp' = Response("admin_update_request", 401,
                                "Not authenticated as admin")
            /\ UNCHANGED requests
       ELSE IF status \notin {"pending", "approved", "denied"}
       THEN /\ resp' = Response("admin_update_request", 400, "Invalid status")
            /\ UNCHANGED requests
       ELSE IF request_id \notin DOMAIN requests
       THEN /\ resp' = Response("admin_update_request", 404, "Request not found")
            /\ UNCHANGED requests
       ELSE /\ requests' = [requests EXCEPT ![request_id].status = status]
            /\ resp' = Response("admin_update_request", 303, "/admin/requests")
    /\ UNCHANGED <<chat_bans, messages, tasks, registry>>

(***************************************************************************)
(* POST /admin/bans/new : UNIQUE(school, username), IntegrityError passed  *)
(***************************************************************************)
\* A faulty variant of ban_exists without the UNIQUE constraint; property
\* C20 tells the two apart.
ban_never_exists(school, username) == FALSE

ban_exists(school, username) ==
    \E i \in DOMAIN chat_bans :
        chat_bans[i].school = school /\ chat_bans[i].username = username

admin_new_ban(session, username, school) ==
    /\ IF ~require_admin(session)
       THEN /\ resp' = Response("admin_new_ban", 401, "Not authenticated as admin")
            /\ UNCHANGED chat_bans
       ELSE /\ IF ban_exists(school, username)
               THEN UNCHANGED chat_bans
               ELSE chat_bans' = Append(chat_bans,
                           [school |-> school, username |-> username,
                            active |-> TRUE])
            /\ resp' = Response("admin_new_ban", 303, "/admin/bans")
    /\ UNCHANGED <<requests, messages, tasks, registry>>

(***************************************************************************)
(* POST /admin/bans/{ban_id}/toggle                                        *)
(***************************************************************************)
admin_toggle_ban(session, ban_id) ==
    /\ IF ~require_admin(session)
       THEN /\ resp' = Response("admin_toggle_ban", 401,
                                "Not authenticated as admin")
            /\ UNCHANGED chat_bans
       ELSE IF ban_id \notin DOMAIN chat_bans
       THEN /\ resp' = Response("admin_toggle_ban", 404, "Ban not found")
            /\ UNCHANGED chat_bans
       ELSE /\ chat_bans' = [chat_bans EXCEPT ![ban_id].active = ~@]
            /\ resp' = Response("admin_toggle_ban", 303, "/admin/bans")
    /\ UNCHANGED <<requests, messages, tasks, registry>>

\* A faulty variant of is_approved that takes an approval at any school;
\* property C2 tells the two apart.
is_approved_anywhere(school, username) ==
    \E r \in Range(requests) : r.username = username /\ r.status = "approved"

(***************************************************************************)
(* The moderation gate of send_message: the two SELECTs.                   *)
(***************************************************************************)
is_approved(school, username) ==
    \E i \in DOMAIN requests :
        /\ requests[i].school = school
        /\ requests[i].username = username
        /\ requests[i].status = "approved"

\* A faulty variant of has_active_ban that counts lifted bans; property C3
\* tells the two apart.
has_any_ban(school, username) ==
    \E b \in Range(chat_bans) : b.school = school /\ b.username = username

\* A faulty variant of has_active_ban that skips the ban lookup; property
\* C18 tells the two apart.
ban_ignored(school, username) == FALSE

has_active_ban(school, username) ==
    \E i \in DOMAIN chat_bans :
        /\ chat_bans[i].school = school
        /\ chat_bans[i].username = username
        /\ chat_bans[i].active

\* A faulty variant of bad_length that measures the body as sent; property
\* C4 tells the two apart.
bad_raw_length(message) ==
    Len(message) < MIN_MESSAGE_LEN \/ Len(message) > MAX_MESSAGE_LEN

bad_length(message) ==
    \/ Len(strip(message)) < MIN_MESSAGE_LEN
    \/ Len(strip(message)) > MAX_MESSAGE_LEN

(***************************************************************************)
(* datetime('now') has a resolution of one second and the clock does not   *)
(* run backwards: a new row falls in the second of the newest row or in a  *)
(* later one.  Seconds are numbered from the first row's.                  *)
(***************************************************************************)
Now ==
    IF messages = <<>> THEN {1}
    ELSE {messages[Len(messages)].sent_at, messages[Len(messages)].sent_at + 1}

\* A faulty variant of insert_message that answers without writing the row;
\* property C1 tells the two apart.
insert_dropped(now, school, username, message) == messages

\* INSERT INTO messages (...) VALUES (datetime('now'), ?, ?, ?, 0); commit
insert_message(now, school, username, message) ==
    Append(messages, [sent_at |-> now, school |-> school, username |-> username,
                      message |-> message, deleted |-> FALSE])

message_new(new_id, username, message) ==
    [type |-> "message_new", id |-> new_id, username |-> username,
     message |-> message, deleted |-> FALSE]

(***************************************************************************)
(* POST /send_message/                                                     *)
(***************************************************************************)
send_message(key, now, school, username, message) ==
    LET item == MessageItem(key, school, username, message) IN
    /\ IF ~verify_token(key)
       THEN /\ resp' = Answer(item, 401, "Invalid API Token")
            /\ UNCHANGED <<messages, tasks>>
       ELSE IF check_word_filter(message)
       THEN /\ resp' = Answer(item, 403, CONTENT_REJECTED)
            /\ UNCHANGED <<messages, tasks>>
       ELSE IF ~is_approved(school, username)
       THEN /\ resp' = Answer(item, 403, NOT_APPROVED)
            /\ UNCHANGED <<messages, tasks>>
       ELSE IF has_active_ban(school, username)
       THEN /\ resp' = Answer(item, 403, BANNED)
            /\ UNCHANGED <<messages, tasks>>
       ELSE IF bad_length(message)
       THEN /\ resp' = Answer(item, 400, INVALID_LENGTH)
            /\ UNCHANGED <<messages, tasks>>
       ELSE /\ messages' = insert_message(now, school, username, strip(message))
            /\ tasks' = create_task(school,
                   message_new(Len(messages') , username, strip(message)))
            /\ resp' = Answer(item, 201, "Message sent")
    /\ UNCHANGED <<requests, chat_bans, registry>>

(***************************************************************************)
(* POST /admin/chats/{school}/system                                       *)
(***************************************************************************)
admin_system_message(session, now, school, message) ==
    /\ IF ~require_admin(session)
       THEN /\ resp' = Response("admin_system_message", 401,
                                "Not authenticated as admin")
            /\ UNCHANGED <<messages, tasks>>
       ELSE IF \/ Len(strip(message)) < MIN_SYSTEM_LEN
               \/ Len(strip(message)) > MAX_SYSTEM_LEN
       THEN /\ resp' = Response("admin_system_message", 400,
                                "Nachricht muss 1-200 Zeichen haben")
            /\ UNCHANGED <<messages, tasks>>
       ELSE /\ messages' = insert_message(now, school, SYSTEM, strip(message))
            /\ tasks' = create_task(school,
                   message_new(Len(messages'), SYSTEM, strip(message)))
            /\ resp' = Response("admin_system_message", 303, "/admin/chats")
    /\ UNCHANGED <<requests, chat_bans, registry>>

\* A faulty variant of set_deleted that matches the id alone; property C10
\* tells the two apart.
set_deleted_by_id(flag, message_id, school) ==
    [i \in DOMAIN messages |->
        IF i = message_id THEN [messages[i] EXCEPT !.deleted = flag]
        ELSE messages[i]]

(***************************************************************************)
(* POST /admin/chats/{school}/{message_id}/delete                          *)
(***************************************************************************)
\* UPDATE messages SET deleted = ? WHERE id = ? AND school = ?; commit
set_deleted(flag, message_id, school) ==
    [i \in DOMAIN messages |->
        IF i = message_id /\ messages[i].school = school
        THEN [messages[i] EXCEPT !.deleted = flag]
        ELSE messages[i]]

message_deleted(message_id, school) ==
    [type |-> "message_deleted", id |-> message_id, school |-> school]

admin_delete_message(session, school, message_id) ==
    /\ IF ~require_admin(session)
       THEN /\ resp' = Response("admin_delete_message", 401,
                                "Not authenticated as admin")
            /\ UNCHANGED <<messages, tasks>>
       ELSE /\ messages' = set_deleted(TRUE, message_id, school)
            /\ tasks' = create_task(school, message_deleted(message_id, school))
            /\ resp' = Response("admin_delete_message", 303, "/admin/chats")
    /\ UNCHANGED <<requests, chat_bans, registry>>

(***************************************************************************)
(* POST /admin/chats/{school}/{message_id}/restore                         *)
(***************************************************************************)
\* A faulty variant of find_message that matches the id alone; property C11
\* tells the two apart.
find_message_by_id(message_id, school) == message_id \in DOMAIN messages

\* SELECT username, message FROM messages WHERE id = ? AND school = ?
find_message(message_id, school) ==
    message_id \in DOMAIN messages /\ messages[message_id].school = school

message_restored(message_id, school) ==
    [type |-> "message_restored", id |-> message_id,
     username |-> IF find_message(message_id, school)
                  THEN messages[message_id].username ELSE NULL,
     message |-> IF find_message(message_id, school)
                 THEN messages[message_id].message ELSE NULL_TEXT,
     school |-> school]

admin_restore_message(session, school, message_id) ==
    /\ IF ~require_admin(session)
       THEN /\ resp' = Response("admin_restore_message", 401,
                                "Not authenticated as admin")
            /\ UNCHANGED <<messages, tasks>>
       ELSE /\ IF find_message(message_id, school)
               THEN messages' = set_deleted(FALSE, message_id, school)
               ELSE UNCHANGED messages
            /\ tasks' = create_task(school, message_restored(message_id, school))
            /\ resp' = Response("admin_restore_message", 303, "/admin/chats")
    /\ UNCHANGED <<requests, chat_bans, registry>>

(***************************************************************************)
(* POST /get_messages/ : ORDER BY sent_at DESC LIMIT 100.  Rows of one     *)
(* second have no defined order; SQLite returns them by rowid, ascending   *)
(* or descending with the plan it picks: tie is that choice.               *)
(***************************************************************************)
before(rows, tie, i, j) ==
    \/ rows[i].sent_at > rows[j].sent_at
    \/ /\ rows[i].sent_at = rows[j].sent_at
       /\ IF tie = "asc" THEN i < j ELSE i > j

\* the ids of the school's rows in the order of the SELECT, cut at the LIMIT
select_messages(rows, tie, school) ==
    LET ids == SelectSeq([i \in 1..Len(rows) |-> i],
                         LAMBDA i : rows[i].school = school)
        sorted == SortSeq(ids, LAMBDA i, j : before(rows, tie, i, j))
    IN  IF Len(sorted) > LIST_LIMIT THEN SubSeq(sorted, 1, LIST_LIMIT) ELSE sorted

\* A faulty variant of listed that returns the body of a deleted row;
\* property C9 tells the two apart.
listed_unmasked(m, id) ==
    [id |-> id, sent_at |-> m.sent_at, username |-> m.username,
     message |-> m.message, deleted |-> m.deleted]

listed(m, id) ==
    [id |-> id, sent_at |-> m.sent_at, username |-> m.username,
     message |-> IF m.deleted THEN <<>> ELSE m.message,
     deleted |-> m.deleted]

\* the response of get_messages for the table rows
list_messages(rows, tie, school) ==
    LET sel == select_messages(rows, tie, school)
    IN  [k \in DOMAIN sel |-> listed(rows[sel[k]], sel[k])]

get_messages(key, tie, school) ==
    /\ IF ~verify_token(key)
       THEN resp' = Response("get_messages", 401, "Invalid API Token")
       ELSE resp' = [Response("get_messages", 200, school)
                        EXCEPT !.rows = list_messages(messages, tie, school)]
    /\ UNCHANGED <<store, tasks, registry>>

(***************************************************************************)
(* ConnectionManager.disconnect                                            *)
(***************************************************************************)
Without(list, websocket) ==
    SelectSeq(list, LAMBDA conn : conn # websocket)

\* A faulty variant of disconnect that empties the school's partition;
\* property C17 tells the two apart.
disconnect_all(connections, websocket, school) ==
    IF school \in DOMAIN connections
    THEN [connections EXCEPT ![school] = <<>>]
    ELSE connections

disconnect(connections, websocket, school) ==
    IF school \in DOMAIN connections
    THEN [connections EXCEPT ![school] = Without(@, websocket)]
    ELSE connections

(***************************************************************************)
(* The websocket endpoint /ws/{school}?token=...                           *)
(***************************************************************************)
Idle == [pc |-> "idle", school |-> NULL, token |-> NULL, close_code |-> 0]

\* the endpoint reads the token and awaits websocket.accept() in connect
websocket_endpoint(websocket, school, token) ==
    /\ sockets[websocket].pc = "idle"
    /\ sockets' = [sockets EXCEPT ![websocket] =
                      [pc |-> "accept", school |-> school, token |-> token,
                       close_code |-> 0]]
    /\ UNCHANGED <<store, tasks, resp, active_connections, last_broadcast>>

\* A faulty variant of register that appends the channel to every partition;
\* property C19 tells the two apart.
register_everywhere(connections, websocket, school) ==
    [s \in DOMAIN connections \cup {school} |->
        IF s \in DOMAIN connections THEN Append(connections[s], websocket)
        ELSE <<websocket>>]

\* self.active_connections[school].append(websocket), on a defaultdict(list)
register(connections, websocket, school) ==
    IF school \in DOMAIN connections
    THEN [connections EXCEPT ![school] = Append(@, websocket)]
    ELSE [s \in DOMAIN connections \cup {school} |->
            IF s = school THEN <<websocket>> ELSE connections[s]]

\* A faulty variant of connect that closes the socket of a wrong token and
\* goes on to register it; property C6 tells the two apart.
connect_without_return(websocket) ==
    /\ sockets[websocket].pc = "accept"
    /\ active_connections' =
           register(active_connections, websocket, sockets[websocket].school)
    /\ sockets' = [sockets EXCEPT
           ![websocket].pc = "receive",
           ![websocket].close_code =
               IF sockets[websocket].token # API_TOKEN THEN POLICY_VIOLATION ELSE 0]
    /\ UNCHANGED <<store, tasks, resp, last_broadcast>>

\* connect after accept(): close with 1008 and return, or register; the
\* endpoint then waits in receive_text
connect(websocket) ==
    /\ sockets[websocket].pc = "accept"
    /\ IF sockets[websocket].token # API_TOKEN
       THEN /\ sockets' = [sockets EXCEPT ![websocket].pc = "receive",
                                          ![websocket].close_code = POLICY_VIOLATION]
            /\ UNCHANGED active_connections
       ELSE /\ active_connections' =
                   register(active_connections, websocket, sockets[websocket].school)
            /\ sockets' = [sockets EXCEPT ![websocket].pc = "receive"]
    /\ UNCHANGED <<store, tasks, resp, last_broadcast>>

\* receive_text raises WebSocketDisconnect: manager.disconnect(websocket, school)
websocket_disconnect(websocket) ==
    /\ sockets[websocket].pc = "receive"
    /\ active_connections' =
           disconnect(active_connections, websocket, sockets[websocket].school)
    /\ sockets' = [sockets EXCEPT ![websocket].pc = "closed"]
    /\ UNCHANGED <<store, tasks, resp, last_broadcast>>

(***************************************************************************)
(* ConnectionManager.broadcast, one step per await.                        *)
(***************************************************************************)
RemoveAt(list, i) ==
    [k \in 1..(Len(list) - 1) |-> IF k < i THEN list[k] ELSE list[k + 1]]

\* A faulty variant of prune that keeps the failed connections; property C5
\* tells the two apart.
prune_nothing(connections, disconnected, school) == connections

\* for conn in disconnected: self.disconnect(conn, school)
RECURSIVE prune(_, _, _)
prune(connections, disconnected, school) ==
    IF disconnected = <<>> THEN connections
    ELSE prune(disconnect(connections, Head(disconnected), school),
               Tail(disconnected), school)

\* the task runs to its first await: the key test, the copy of the list and
\* the first send_json
broadcast_start(i) ==
    /\ tasks[i].pc = "scheduled"
    /\ IF tasks[i].school \notin DOMAIN active_connections
       THEN tasks' = RemoveAt(tasks, i)
       ELSE IF active_connections[tasks[i].school] = <<>>
       THEN tasks' = RemoveAt(tasks, i)
       ELSE tasks' = [tasks EXCEPT
                ![i].pc = "sending",
                ![i].snapshot = active_connections[tasks[i].school],
                ![i].attempts = <<active_connections[tasks[i].school][1]>>]
    /\ UNCHANGED <<store, resp, registry>>

\* A faulty variant of iterated that walks the registry's own list; property
\* C7 tells the two apart.
iterated_live(t) == active_connections[t.school]

\* the list the for loop walks: the copy made when the broadcast started
iterated(t) == t.snapshot

\* the pending send_json returns (ok) or raises; the loop goes on to the next
\* connection of the copy, or ends and the failed connections are removed
broadcast_send(i, ok) ==
    LET t == tasks[i]
        failed == IF ok THEN t.disconnected
                  ELSE Append(t.disconnected, t.attempts[Len(t.attempts)])
        next == Len(t.attempts) + 1
    IN  /\ t.pc = "sending"
        /\ IF next <= Len(iterated(t))
           THEN /\ tasks' = [tasks EXCEPT
                       ![i].disconnected = failed,
                       ![i].attempts = Append(t.attempts, iterated(t)[next])]
                /\ UNCHANGED <<active_connections, last_broadcast>>
           ELSE /\ tasks' = RemoveAt(tasks, i)
                /\ active_connections' = prune(active_connections, failed, t.school)
                /\ last_broadcast' =
                       [school |-> t.school, event |-> t.event,
                        snapshot |-> t.snapshot,
                        attempts |-> t.attempts, disconnected |-> failed,
                        connections |-> active_connections[t.school],
                        pruned |-> active_connections'[t.school]]
        /\ UNCHANGED <<store, resp, sockets>>

(***************************************************************************)
(* The specification.  The tables and the task queue grow without bound in *)
(* the program; a step that would take them past rows messages or pending  *)
(* broadcast tasks is not taken.                                           *)
(***************************************************************************)
Fits(rows, pending) == Len(messages') <= rows /\ Len(tasks') <= pending

Init ==
    /\ requests = <<>>
    /\ chat_bans = <<>>
    /\ messages = <<>>
    /\ active_connections = <<>>
    /\ sockets = [c \in Channels |-> Idle]
    /\ tasks = <<>>
    /\ resp = NoResponse
    /\ last_broadcast = [school |-> NULL, event |-> [type |-> NULL],
                         snapshot |-> <<>>, attempts |-> <<>>,
                         disconnected |-> <<>>, connections |-> <<>>,
                         pruned |-> <<>>]


Next ==
    \/ \E k \in Keys, s \in Schools, u \in Users, st \in SentStatuses :
          create_request(k, s, u, st)
    \/ \E a \in Cookies, id \in RequestIds, st \in SentStatuses :
          admin_update_request(a, id, st)
    \/ \E k \in AdminKeys, id \in RequestIds, st \in SentStatuses :
          update_status(k, id, st)
    \/ \E a \in Cookies, t \in BanTargets : admin_new_ban(a, t[2], t[1])
    \/ \E a \in Cookies, id \in 1..Cardinality(BanTargets) : admin_toggle_ban(a, id)
    \/ \E k \in Keys, now \in Now, s \in Schools, u \in Users, b \in Bodies :
          send_message(k, now, s, u, b) /\ Fits(MaxMessages, MaxTasks)
    \/ \E a \in Cookies, now \in Now, s \in Schools, b \in SystemBodies :
          admin_system_message(a, now, s, b) /\ Fits(MaxMessages, MaxTasks)
    \/ \E a \in Cookies, s \in Schools, id \in 1..MaxMessages :
          admin_delete_message(a, s, id) /\ Fits(MaxMessages, MaxTasks)
    \/ \E a \in Cookies, s \in Schools, id \in 1..MaxMessages :
          admin_restore_message(a, s, id) /\ Fits(MaxMessages, MaxTasks)
    \/ \E k \in Keys, tie \in {"asc", "desc"}, s \in Schools :
          get_messages(k, tie, s)
    \/ \E c \in Channels, s \in Schools, tok \in Keys : websocket_endpoint(c, s, tok)
    \/ \E c \in Channels : connect(c)
    \/ \E c \in Channels : websocket_disconnect(c)
    \/ \E i \in DOMAIN tasks : broadcast_start(i)
    \/ \E i \in DOMAIN tasks, ok \in BOOLEAN : broadcast_send(i, ok)

Spec == Init /\ [][Next]_vars

(***************************************************************************)
(* The state space of Spec is the product of the store, the registry and   *)
(* the tasks.  The properties are checked in the environments below: each  *)
(* takes the actions of Next that its properties are about and the clients *)
(* that reach their cases.                                                 *)
(***************************************************************************)

\* Admission: clients of both schools ask for access under every username and
\* status; the administrator updates by either route, unknown ids included.
NextRequests ==
    \/ \E k \in Keys, s \in Schools, u \in Users, st \in SentStatuses :
          create_request(k, s, u, st)
    \/ \E a \in Cookies, id \in RequestIds, st \in SentStatuses :
          admin_update_request(a, id, st)
    \/ \E k \in AdminKeys, id \in RequestIds, st \in SentStatuses :
          update_status(k, id, st)

SpecRequests == Init /\ [][NextRequests]_vars

\* Admission and posting: one requester, bans at both schools, and senders of
\* every (school, username) pair; no channel joins.
NextGate ==
    \/ \E s \in Schools, st \in {"pending", "approved"} :
          create_request(API_TOKEN, s, "alice", st)
    \/ \E st \in Statuses : admin_update_request(ADMIN_SESSION, 1, st)
    \/ \E t \in BanTargets : admin_new_ban(ADMIN_SESSION, t[2], t[1])
    \/ \E id \in 1..Cardinality(BanTargets) : admin_toggle_ban(ADMIN_SESSION, id)
    \/ \E k \in Keys, now \in Now, s \in Schools, u \in Users, b \in Bodies :
          send_message(k, now, s, u, b) /\ Fits(MaxPosts, MaxTasks)
    \/ \E i \in DOMAIN tasks : broadcast_start(i)

SpecGate == Init /\ [][NextGate]_vars

\* The length limits of send_message: one sender, the bodies at the limits.
NextLen ==
    \/ \E st \in {"pending", "approved"} :
          create_request(API_TOKEN, "east", "alice", st)
    \/ \E st \in Statuses : admin_update_request(ADMIN_SESSION, 1, st)
    \/ admin_new_ban(ADMIN_SESSION, "alice", "east")
    \/ admin_toggle_ban(ADMIN_SESSION, 1)
    \/ \E s \in Schools, b \in BoundaryBodies :
          send_message(API_TOKEN, Max(Now), s, "alice", b) /\ Fits(MaxPosts, 1)
    \/ \E i \in DOMAIN tasks : broadcast_start(i)

SpecLen == Init /\ [][NextLen]_vars

\* Moderation of stored messages: announce, delete, restore, list.
NextModeration ==
    \/ \E a \in Cookies, now \in Now, s \in Schools, b \in SystemBodies :
          admin_system_message(a, now, s, b) /\ Fits(MaxMessages, 1)
    \/ \E a \in Cookies, s \in Schools, id \in 1..MaxMessages :
          admin_delete_message(a, s, id) /\ Fits(MaxMessages, 1)
    \/ \E a \in Cookies, s \in Schools, id \in 1..MaxMessages :
          admin_restore_message(a, s, id) /\ Fits(MaxMessages, 1)
    \/ \E k \in Keys, tie \in {"asc", "desc"}, s \in Schools :
          get_messages(k, tie, s)
    \/ \E i \in DOMAIN tasks : broadcast_start(i)

SpecModeration == Init /\ [][NextModeration]_vars

\* One school's history growing past the LIMIT of get_messages, one row a
\* second; the oldest and the newest row are moderated.
HistoryIds == {1, MaxHistory}

NextHistory ==
    \/ admin_system_message(ADMIN_SESSION, Max(Now), "east", <<"a">>)
          /\ Fits(MaxHistory, 1)
    \/ \E id \in HistoryIds :
          admin_delete_message(ADMIN_SESSION, "east", id) /\ Fits(MaxHistory, 1)
    \/ \E id \in HistoryIds :
          admin_restore_message(ADMIN_SESSION, "east", id) /\ Fits(MaxHistory, 1)
    \/ get_messages(API_TOKEN, "asc", "east")
    \/ \E i \in DOMAIN tasks : broadcast_start(i)

SpecHistory == Init /\ [][NextHistory]_vars

\* The registry: channels joining and leaving while broadcasts run.
NextRegistry ==
    \/ \E s \in Schools :
          admin_delete_message(ADMIN_SESSION, s, 1) /\ Fits(MaxPosts, MaxTasks)
    \/ \E c \in Channels, s \in Schools, tok \in Keys : websocket_endpoint(c, s, tok)
    \/ \E c \in Channels : connect(c)
    \/ \E c \in Channels : websocket_disconnect(c)
    \/ \E i \in DOMAIN tasks : broadcast_start(i)
    \/ \E i \in DOMAIN tasks, ok \in BOOLEAN : broadcast_send(i, ok)

SpecRegistry == Init /\ [][NextRegistry]_vars

\* The chat service end to end: a self-approved sender, an administrator
\* and one subscriber; one broadcast pending at a time.
NextChat ==
    \/ \E s \in Schools : create_request(API_TOKEN, s, "alice", "approved")
    \/ \E now \in Now, s \in Schools :
          send_message(API_TOKEN, now, s, "alice", Hi) /\ Fits(MaxPosts, 1)
    \/ \E now \in Now, s \in Schools :
          admin_system_message(ADMIN_SESSION, now, s, <<"a">>)
             /\ Fits(MaxPosts, 1)
    \/ \E s \in Schools, id \in 1..MaxPosts :
          admin_delete_message(ADMIN_SESSION, s, id) /\ Fits(MaxPosts, 1)
    \/ \E s \in Schools, id \in 1..MaxPosts :
          admin_restore_message(ADMIN_SESSION, s, id) /\ Fits(MaxPosts, 1)
    \/ \E s \in Schools : websocket_endpoint("c1", s, API_TOKEN)
    \/ \E c \in Channels : connect(c)
    \/ \E c \in Channels : websocket_disconnect(c)
    \/ \E i \in DOMAIN tasks : broadcast_start(i)
    \/ \E i \in DOMAIN tasks, ok \in BOOLEAN : broadcast_send(i, ok)

SpecChat == Init /\ [][NextChat]_vars

\* Attribution: clients that request access and post under every username,
\* the sentinel included, next to the administrator's announcements.
NextSystem ==
    \/ \E s \in Schools, u \in Users, st \in {"pending", "approved"} :
          create_request(API_TOKEN, s, u, st)
    \/ \E now \in Now, s \in Schools, u \in Users :
          send_message(API_TOKEN, now, s, u, Hi) /\ Fits(MaxMessages, MaxTasks)
    \/ \E now \in Now, s \in Schools :
          admin_system_message(ADMIN_SESSION, now, s, <<"a">>)
             /\ Fits(MaxMessages, MaxTasks)
    \/ \E i \in DOMAIN tasks : broadcast_start(i)

SpecSystem == Init /\ [][NextSystem]_vars


(***************************************************************************)
(* What the properties say of a state, in the words of the specification.  *)
(***************************************************************************)
Approved(school, username) ==
    \E r \in Range(requests) :
        r.school = school /\ r.username = username /\ r.status = "approved"
ActivelyBanned(school, username) ==
    \E b \in Range(chat_bans) :
        b.school = school /\ b.username = username /\ b.active = TRUE
GateAllows(school, username) ==
    Approved(school, username) /\ ~ActivelyBanned(school, username)
Registered(school) ==
    IF school \in DOMAIN active_connections
    THEN Range(active_connections[school]) ELSE {}
RegisteredAfter(school) ==
    IF school \in DOMAIN active_connections'
    THEN Range(active_connections'[school]) ELSE {}
\* a handler has created a broadcast task in this step
TaskCreated == Len(tasks') = Len(tasks) + 1
NewTask == tasks'[Len(tasks')]
\* a broadcast coroutine has run in this step
BroadcastStep == tasks' # tasks /\ Len(tasks') <= Len(tasks)
BroadcastFinished == last_broadcast' # last_broadcast
Count(list, x) == Cardinality({ k \in DOMAIN list : list[k] = x })
IsPrefix(p, q) == Len(p) <= Len(q) /\ p = SubSeq(q, 1, Len(p))

(***************************************************************************)
(* C1.  A broadcast task is created only in the step that has committed    *)
(* its store mutation, and it has not run then: a message_new event is the *)
(* row just inserted, a message_deleted / message_restored event finds the *)
(* row's flag already set.  No message_new event is queued, in delivery or *)
(* delivered without its row in the store.                                 *)
(***************************************************************************)
RowOf(event, school, rows) ==
    /\ event.id \in DOMAIN rows
    /\ rows[event.id].school = school

EventPersisted(t, rows) ==
    CASE t.event.type = "message_new" ->
            /\ RowOf(t.event, t.school, rows)
            /\ rows[t.event.id].username = t.event.username
            /\ rows[t.event.id].message = t.event.message
      [] t.event.type = "message_deleted" ->
            RowOf(t.event, t.school, rows) => rows[t.event.id].deleted
      [] t.event.type = "message_restored" ->
            RowOf(t.event, t.school, rows) => ~rows[t.event.id].deleted

C1_Delivered_Is_Stored ==
    /\ \A i \in DOMAIN tasks :
          tasks[i].event.type = "message_new" => EventPersisted(tasks[i], messages)
    /\ last_broadcast.event.type = "message_new" =>
          EventPersisted(last_broadcast, messages)

C1_Created_After_Commit ==
    TaskCreated =>
        /\ EventPersisted(NewTask, messages')
        /\ NewTask.pc = "scheduled" /\ NewTask.attempts = <<>>
        /\ NewTask.event.type = "message_new" =>
              /\ NewTask.event.id \notin DOMAIN messages
              /\ ~messages'[NewTask.event.id].deleted

C1_Persist_Before_Broadcast ==
    []C1_Delivered_Is_Stored /\ [][C1_Created_After_Commit]_vars

\* a subscriber is being sent the message_new event of a stored row
C1_Witness ==
    \E i \in DOMAIN tasks :
        /\ tasks[i].pc = "sending"
        /\ tasks[i].event.type = "message_new"
        /\ tasks[i].event.username = "alice"
        /\ RowOf(tasks[i].event, tasks[i].school, messages)

(***************************************************************************)
(* C2.  A send_message that is rejected (401, 403, 400) leaves the         *)
(* messages table and the task queue as they were; a step of send_message  *)
(* that changes either had a valid key, a body the filter passes, a sender *)
(* the gate allows and a trimmed length within the limits.                 *)
(***************************************************************************)
\* the step is send_message answering the request recorded in resp'
SendStep ==
    LET item == resp'.request
    IN  /\ resp'.op = "send_message"
        /\ \E now \in Now :
              send_message(item.key, now, item.school, item.username, item.message)

C2_Step ==
    LET item == resp'.request
    IN  SendStep =>
            /\ resp'.code # 201 => UNCHANGED <<messages, tasks>>
            /\ (messages' # messages \/ tasks' # tasks) =>
                  /\ resp'.code = 201
                  /\ item.key = API_TOKEN
                  /\ ~check_word_filter(item.message)
                  /\ GateAllows(item.school, item.username)
                  /\ Len(strip(item.message)) >= MIN_MESSAGE_LEN
                  /\ Len(strip(item.message)) <= MAX_MESSAGE_LEN
                  /\ Len(messages') = Len(messages) + 1
                  /\ TaskCreated

C2_Rejected_Send_Changes_Nothing == [][C2_Step]_vars

\* a send was rejected while a row was stored and no broadcast was pending
C2_Witness ==
    /\ resp.op = "send_message"
    /\ resp.code = 403
    /\ resp.detail = CONTENT_REJECTED
    /\ messages # <<>>
    /\ tasks = <<>>

(***************************************************************************)
(* C3.  send_message passes the gate iff the sender's exact (school,       *)
(* username) has an approved request and no active ban; an approved sender *)
(* with an active ban is told BANNED, a sender without an approved       *)
(* request NOT_APPROVED.                                                 *)
(***************************************************************************)
GateReached ==
    resp'.request.key = API_TOKEN /\ ~check_word_filter(resp'.request.message)

C3_Step ==
    LET s == resp'.request.school
        u == resp'.request.username
    IN  (SendStep /\ GateReached) =>
            /\ resp'.detail = NOT_APPROVED <=> ~Approved(s, u)
            /\ resp'.detail = BANNED <=>
                  (Approved(s, u) /\ ActivelyBanned(s, u))
            /\ resp'.detail \in {NOT_APPROVED, BANNED} <=> ~GateAllows(s, u)
            /\ resp'.detail \in {NOT_APPROVED, BANNED} => resp'.code = 403

C3_Gate_Iff_Approved_And_Not_Banned == [][C3_Step]_vars

\* an approved sender with an active ban was rejected as banned
C3_Witness ==
    /\ resp.op = "send_message"
    /\ resp.detail = BANNED
    /\ \E s \in Schools, u \in Users : Approved(s, u) /\ ActivelyBanned(s, u)

(***************************************************************************)
(* C4 as amended.  For a sender the gate allows and a body the filter      *)
(* passes, send_message fails with the length error iff the trimmed length *)
(* is below 2 or above 500: trimmed lengths 1 and 501 fail, 2 and 500      *)
(* succeed and store the trimmed body.                                     *)
(***************************************************************************)
C4_Step ==
    LET item == resp'.request
        trimmed == Len(strip(item.message))
    IN  (/\ item.key = API_TOKEN
         /\ GateAllows(item.school, item.username)
         /\ SendStep
         /\ ~check_word_filter(item.message)) =>
            /\ trimmed \in {MIN_MESSAGE_LEN - 1, MAX_MESSAGE_LEN + 1} =>
                  /\ resp'.code = 400
                  /\ resp'.detail = INVALID_LENGTH
                  /\ UNCHANGED messages
            /\ trimmed \in {MIN_MESSAGE_LEN, MAX_MESSAGE_LEN} =>
                  /\ resp'.code = 201
                  /\ messages'[Len(messages')].message = strip(item.message)
            /\ resp'.code = 400 <=>
                  (trimmed < MIN_MESSAGE_LEN \/ trimmed > MAX_MESSAGE_LEN)

C4_Trimmed_Length_Limits == [][C4_Step]_vars

\* a body of trimmed length 500 was sent and stored
C4_Witness ==
    /\ resp.op = "send_message"
    /\ resp.code = 201
    /\ \E i \in DOMAIN messages : Len(messages[i].message) = MAX_MESSAGE_LEN

\* C4 as written: the length of the body alone decides, for every sender
C4_Original_Step ==
    LET item == resp'.request
    IN  (SendStep /\ item.key = API_TOKEN) =>
            /\ Len(item.message) \in {MIN_MESSAGE_LEN - 1, MAX_MESSAGE_LEN + 1} =>
                  resp'.code = 400 /\ resp'.detail = INVALID_LENGTH
            /\ Len(item.message) \in {MIN_MESSAGE_LEN, MAX_MESSAGE_LEN} =>
                  resp'.code = 201

C4_Original_Length_Alone_Decides == [][C4_Original_Step]_vars


(***************************************************************************)
(* C5.  A broadcast takes the channels registered under its school when it *)
(* starts and sends the event to each of them exactly once, in order,      *)
(* whether or not an earlier send failed; when it ends, the channels whose *)
(* send failed, and no others, are removed from the school's partition.    *)
(* With no channel registered the broadcast ends at once and changes       *)
(* nothing.                                                                *)
(***************************************************************************)
Finishing(i) ==
    /\ tasks[i].pc = "sending"
    /\ Len(tasks[i].attempts) = Len(tasks[i].snapshot)
    /\ tasks' = RemoveAt(tasks, i)

Starting(i) == tasks[i].pc = "scheduled" /\ broadcast_start(i)

C5_Attempts ==
    /\ \A i \in DOMAIN tasks :
          tasks[i].pc = "sending" =>
              /\ tasks[i].attempts # <<>>
              /\ IsPrefix(tasks[i].attempts, tasks[i].snapshot)
              /\ \A c \in Range(tasks[i].snapshot) : Count(tasks[i].snapshot, c) = 1
              /\ \A c \in Range(tasks[i].disconnected) :
                    /\ Count(tasks[i].disconnected, c) = 1
                    /\ \E k \in 1..(Len(tasks[i].attempts) - 1) :
                          tasks[i].attempts[k] = c
    /\ last_broadcast.school # NULL =>
          /\ last_broadcast.attempts = last_broadcast.snapshot
          /\ \A c \in Range(last_broadcast.snapshot) :
                Count(last_broadcast.attempts, c) = 1
          /\ \A c \in Range(last_broadcast.disconnected) :
                /\ Count(last_broadcast.disconnected, c) = 1
                /\ c \in Range(last_broadcast.snapshot)
          /\ Cardinality(Range(last_broadcast.snapshot)
                             \ Range(last_broadcast.disconnected))
                = Len(last_broadcast.snapshot) - Len(last_broadcast.disconnected)

C5_Step ==
    \A i \in DOMAIN tasks :
        /\ Starting(i) =>
              IF Registered(tasks[i].school) = {}
              THEN /\ tasks' = RemoveAt(tasks, i)
                   /\ UNCHANGED <<store, resp, registry, sockets>>
              ELSE /\ tasks'[i].snapshot = active_connections[tasks[i].school]
                   /\ tasks'[i].attempts = <<tasks'[i].snapshot[1]>>
                   /\ tasks'[i].disconnected = <<>>
        /\ Finishing(i) =>
              /\ last_broadcast'.school = tasks[i].school
              /\ last_broadcast'.event = tasks[i].event
              /\ last_broadcast'.snapshot = tasks[i].snapshot
              /\ active_connections' =
                    [active_connections EXCEPT ![tasks[i].school] =
                        SelectSeq(@, LAMBDA c :
                            c \notin Range(last_broadcast'.disconnected))]

C5_One_Attempt_Each_Failed_Pruned == []C5_Attempts /\ [][C5_Step]_vars

\* a broadcast to three channels has ended: one send failed and that channel
\* is gone, the other two are still registered
C5_Witness ==
    /\ Len(last_broadcast.snapshot) = 3
    /\ Len(last_broadcast.disconnected) = 1
    /\ Registered(last_broadcast.school) =
          Range(last_broadcast.snapshot) \ Range(last_broadcast.disconnected)

(***************************************************************************)
(* C6.  A channel that connected with a token other than the shared secret *)
(* is closed with code 1008 and is in no partition of the registry, in no  *)
(* broadcast's list of recipients and in no broadcast's attempts; every    *)
(* registered channel passed the token check under the school it is        *)
(* registered for.                                                         *)
(***************************************************************************)
Recipients ==
    UNION { Range(tasks[i].snapshot) \cup Range(tasks[i].attempts) :
                i \in DOMAIN tasks }
        \cup Range(last_broadcast.snapshot) \cup Range(last_broadcast.attempts)

C6_Bad_Token_Never_Registered ==
    /\ \A c \in Channels :
          sockets[c].token # API_TOKEN =>
              /\ \A s \in Schools : c \notin Registered(s)
              /\ c \notin Recipients
              /\ sockets[c].pc \in {"receive", "closed"} =>
                    sockets[c].close_code = POLICY_VIOLATION
    /\ \A s \in Schools : \A c \in Registered(s) :
          /\ sockets[c].token = API_TOKEN
          /\ sockets[c].school = s
          /\ sockets[c].close_code = 0

\* a channel with a wrong token was closed with 1008 and a broadcast of its
\* school has since been delivered to the channels registered there
C6_Witness ==
    \E c \in Channels :
        /\ sockets[c].token = "wrong"
        /\ sockets[c].close_code = POLICY_VIOLATION
        /\ last_broadcast.school = sockets[c].school
        /\ last_broadcast.snapshot # <<>>
        /\ c \notin Range(last_broadcast.snapshot)

(***************************************************************************)
(* C7.  While channels join and leave between the sends of a broadcast,    *)
(* the broadcast walks the list it copied when it started and ends after   *)
(* at most one step for each channel of that list.  A channel             *)
(* leaves the registry only by its own leave or because its send failed in *)
(* the broadcast that is ending, and enters it only by its own join: no    *)
(* join is lost to the pruning and no channel is re-added.                 *)
(***************************************************************************)
C7_Registry_Consistent ==
    /\ \A s \in Schools : \A c \in Registered(s) :
          /\ sockets[c].pc = "receive"
          /\ sockets[c].school = s
          /\ Count(active_connections[s], c) = 1
    /\ \A c \in Channels :
          sockets[c].pc \in {"idle", "accept", "closed"} =>
              \A s \in Schools : c \notin Registered(s)
    /\ \A i \in DOMAIN tasks :
          /\ tasks[i].pc \in {"scheduled", "sending"}
          /\ ENABLED (broadcast_start(i) \/ \E ok \in BOOLEAN : broadcast_send(i, ok))
          /\ tasks[i].pc = "sending" =>
                /\ Len(tasks[i].attempts) >= 1
                /\ IsPrefix(tasks[i].attempts, tasks[i].snapshot)

C7_Step ==
    /\ \A s \in Schools, c \in Channels :
          /\ (c \in Registered(s) /\ c \notin RegisteredAfter(s)) =>
                \/ sockets[c].pc = "receive" /\ sockets'[c].pc = "closed"
                \/ \E i \in DOMAIN tasks :
                      /\ Finishing(i)
                      /\ tasks[i].school = s
                      /\ c \in Range(last_broadcast'.disconnected)
          /\ (c \notin Registered(s) /\ c \in RegisteredAfter(s)) =>
                /\ sockets[c].pc = "accept" /\ sockets'[c].pc = "receive"
                /\ sockets[c].token = API_TOKEN /\ sockets[c].school = s
    /\ \A i \in DOMAIN tasks :
          tasks[i].pc = "sending" =>
              \/ tasks' = tasks
              \/ Len(tasks') = Len(tasks) - 1
              \/ /\ Len(tasks') = Len(tasks)
                 /\ tasks'[i].snapshot = tasks[i].snapshot
                 /\ \/ tasks'[i] = tasks[i]
                    \/ /\ Len(tasks'[i].attempts) = Len(tasks[i].attempts) + 1
                       /\ IsPrefix(tasks'[i].attempts, tasks[i].snapshot)
              \/ /\ Len(tasks') = Len(tasks) + 1
                 /\ tasks'[i] = tasks[i]

C7_Join_Leave_During_Broadcast == []C7_Registry_Consistent /\ [][C7_Step]_vars

\* during a broadcast to two channels a third joined and one of the two
\* left; the send to the other failed: the broadcast ended, the joined
\* channel is registered, the other two are not
C7_Witness ==
    \E joined, left, failed \in Channels :
        /\ Len(last_broadcast.snapshot) = 2
        /\ last_broadcast.disconnected = <<failed>>
        /\ left \in Range(last_broadcast.snapshot) /\ left # failed
        /\ sockets[left].pc = "closed"
        /\ left \notin Range(last_broadcast.connections)
        /\ joined \notin Range(last_broadcast.snapshot)
        /\ joined \in Range(last_broadcast.connections)
        /\ Registered(last_broadcast.school) = {joined}

(***************************************************************************)
(* C8.  The handler that creates a broadcast answers with success in the   *)
(* step that commits its store mutation: the broadcast is then a task that *)
(* has made no send, and the registry is untouched.  No later step of a    *)
(* broadcast, failed sends included, changes the response or the store.    *)
(***************************************************************************)
C8_Step ==
    /\ TaskCreated =>
          /\ resp'.code \in {201, 303}
          /\ resp'.op \in {"send_message", "admin_system_message",
                           "admin_delete_message", "admin_restore_message"}
          /\ NewTask.pc = "scheduled"
          /\ NewTask.snapshot = <<>> /\ NewTask.attempts = <<>>
          /\ UNCHANGED <<active_connections, last_broadcast>>
          /\ \A i \in DOMAIN tasks : tasks'[i] = tasks[i]
    /\ BroadcastStep => UNCHANGED <<resp, store>>

C8_Response_Independent_Of_Delivery == [][C8_Step]_vars

\* the send was answered 201 and the delivery of its event then failed
C8_Witness ==
    /\ resp.op = "send_message"
    /\ resp.code = 201
    /\ last_broadcast.event.type = "message_new"
    /\ last_broadcast.event.id = Len(messages)
    /\ last_broadcast.disconnected # <<>>


(***************************************************************************)
(* C9 as amended.  For a message stored under school s that is among the   *)
(* 100 most recent of s: after admin_delete_message the listing of s has   *)
(* its id with an empty body and deleted = true; after                     *)
(* admin_restore_message the listing has its id with the stored body and   *)
(* deleted = false.  Every row a listing returns is the stored row, masked *)
(* iff it is deleted, and no step ever changes the body of a stored row.   *)
(***************************************************************************)
\* fewer than LIST_LIMIT other rows of the school are as recent as row id
Recent(id, school) ==
    Cardinality({ j \in DOMAIN messages :
                    /\ j # id
                    /\ messages[j].school = school
                    /\ messages[j].sent_at >= messages[id].sent_at }) < LIST_LIMIT

Reports(rows, id, body, deleted) ==
    LET list == rows
    IN  \E k \in DOMAIN list :
            /\ list[k].id = id
            /\ list[k].message = body
            /\ list[k].deleted = deleted

C9_Listing ==
    (resp.op = "get_messages" /\ resp.code = 200) =>
        /\ Len(resp.rows) <= LIST_LIMIT
        /\ \A k \in DOMAIN resp.rows :
              /\ resp.rows[k].id \in DOMAIN messages
              /\ messages[resp.rows[k].id].school = resp.detail
              /\ resp.rows[k].deleted = messages[resp.rows[k].id].deleted
              /\ resp.rows[k].message =
                    IF messages[resp.rows[k].id].deleted THEN <<>>
                    ELSE messages[resp.rows[k].id].message

C9_Step ==
    /\ \A i \in DOMAIN messages :
          /\ i \in DOMAIN messages'
          /\ messages'[i].message = messages[i].message
    /\ \A id \in HistoryIds, tie \in {"asc", "desc"} :
          (find_message(id, "east") /\ Recent(id, "east")) =>
              /\ admin_delete_message(ADMIN_SESSION, "east", id) =>
                    Reports(list_messages(messages', tie, "east"), id, <<>>, TRUE)
              /\ admin_restore_message(ADMIN_SESSION, "east", id) =>
                    Reports(list_messages(messages', tie, "east"), id,
                            messages[id].message, FALSE)

C9_Delete_Masks_Restore_Unmasks == []C9_Listing /\ [][C9_Step]_vars

\* the newest of 101 rows was deleted and restored, and the listing that
\* followed returned 100 rows, that row with its body among them
C9_Witness ==
    /\ Len(messages) = LIST_LIMIT + 1
    /\ resp.op = "get_messages"
    /\ Len(resp.rows) = LIST_LIMIT
    /\ Reports(resp.rows, Len(messages), <<"a">>, FALSE)
    /\ Reports(resp.rows, 2, <<"a">>, FALSE)
    /\ messages[1].deleted

\* C9 as written: the listing reports the id of every message of the school
C9_Original_Step ==
    \A id \in HistoryIds, tie \in {"asc", "desc"} :
        find_message(id, "east") =>
            /\ admin_delete_message(ADMIN_SESSION, "east", id) =>
                  Reports(list_messages(messages', tie, "east"), id, <<>>, TRUE)
            /\ admin_restore_message(ADMIN_SESSION, "east", id) =>
                  Reports(list_messages(messages', tie, "east"), id,
                          messages[id].message, FALSE)

C9_Original_Every_Id_Listed == [][C9_Original_Step]_vars

(***************************************************************************)
(* C10.  admin_delete_message for an id that no row of the school has      *)
(* answers with the redirect, not with an error, changes no stored row (a  *)
(* row with that id at another school keeps deleted = false) and queues    *)
(* the event message_deleted {id, school} for the school; deleting a row   *)
(* that is already deleted changes no stored row either.                   *)
(***************************************************************************)
C10_Step ==
    \A s \in Schools, id \in 1..MaxMessages :
        admin_delete_message(ADMIN_SESSION, s, id) =>
            /\ resp'.code = 303
            /\ TaskCreated
            /\ NewTask.school = s
            /\ NewTask.event =
                  [type |-> "message_deleted", id |-> id, school |-> s]
            /\ ~find_message(id, s) => messages' = messages
            /\ (find_message(id, s) /\ messages[id].deleted) => messages' = messages
            /\ \A j \in DOMAIN messages :
                  (j # id \/ messages[j].school # s) => messages'[j] = messages[j]
            /\ find_message(id, s) => messages'[id].deleted

C10_Delete_Of_Missing_Is_Silent == [][C10_Step]_vars

\* row 1 belongs to east; its deletion was asked for west: the row is not
\* deleted, the answer is the redirect and the event is queued for west
C10_Witness ==
    /\ messages # <<>>
    /\ messages[1].school = "east"
    /\ ~messages[1].deleted
    /\ resp.op = "admin_delete_message"
    /\ resp.code = 303
    /\ tasks # <<>>
    /\ tasks[Len(tasks)].school = "west"
    /\ tasks[Len(tasks)].event =
          [type |-> "message_deleted", id |-> 1, school |-> "west"]


(***************************************************************************)
(* C11.  admin_restore_message for an id that a row of the school has      *)
(* clears that row's deleted flag, changes no other row and queues the     *)
(* event message_restored with the id, the row's username and stored body  *)
(* and the school; for an id that no row of the school has it changes no   *)
(* row and queues the event with username and body null, for that school.  *)
(***************************************************************************)
C11_Step ==
    \A s \in Schools, id \in 1..MaxMessages :
        admin_restore_message(ADMIN_SESSION, s, id) =>
            /\ resp'.code = 303
            /\ TaskCreated
            /\ NewTask.school = s
            /\ NewTask.pc = "scheduled"
            /\ IF id \in DOMAIN messages /\ messages[id].school = s
               THEN /\ ~messages'[id].deleted
                    /\ messages' = [messages EXCEPT ![id].deleted = FALSE]
                    /\ NewTask.event =
                          [type |-> "message_restored", id |-> id,
                           username |-> messages[id].username,
                           message |-> messages[id].message, school |-> s]
               ELSE /\ messages' = messages
                    /\ NewTask.event =
                          [type |-> "message_restored", id |-> id,
                           username |-> NULL, message |-> NULL_TEXT,
                           school |-> s]

C11_Restore_Found_Or_Null_Event == [][C11_Step]_vars

\* row 1 belongs to east and is deleted; its restoration was asked for west:
\* the row is still deleted and the event queued for west carries nulls
C11_Witness ==
    /\ messages # <<>>
    /\ messages[1].school = "east"
    /\ messages[1].deleted
    /\ resp.op = "admin_restore_message"
    /\ resp.code = 303
    /\ tasks # <<>>
    /\ tasks[Len(tasks)].school = "west"
    /\ tasks[Len(tasks)].event =
          [type |-> "message_restored", id |-> 1, username |-> NULL,
           message |-> NULL_TEXT, school |-> "west"]


(***************************************************************************)
(* C12.  No two rows of requests have the same username, whatever their    *)
(* schools.  create_request with a username that a row already has is      *)
(* answered 409 and leaves requests unchanged; with a new username it is   *)
(* answered 201 and appends the row.  Rows are never removed and their     *)
(* usernames never change, so of two calls for one username exactly the    *)
(* first succeeds.                                                         *)
(***************************************************************************)
HasRequest(username) ==
    \E r \in Range(requests) : r.username = username

C12_Unique ==
    \A i, j \in DOMAIN requests :
        requests[i].username = requests[j].username => i = j

C12_Step ==
    /\ \A i \in DOMAIN requests :
          /\ i \in DOMAIN requests'
          /\ requests'[i].username = requests[i].username
          /\ requests'[i].school = requests[i].school
    /\ \A s \in Schools, u \in Users, st \in SentStatuses :
          create_request(API_TOKEN, s, u, st) =>
              IF HasRequest(u)
              THEN resp'.code = 409 /\ requests' = requests
              ELSE /\ resp'.code = 201
                   /\ Len(requests') = Len(requests) + 1
                   /\ requests'[Len(requests')].username = u
                   /\ requests'[Len(requests')].school = s

C12_Username_Unique_Across_Schools == []C12_Unique /\ [][C12_Step]_vars

\* both usernames have a request and a further new_request was answered 409
C12_Witness ==
    /\ Len(requests) = Cardinality(Users)
    /\ requests[1].school # requests[2].school
    /\ resp.op = "create_request"
    /\ resp.code = 409

(***************************************************************************)
(* C13 as written.  Every row of requests has a status among pending,      *)
(* denied and approved, and the status of a row changes only in a step of  *)
(* one of the administrator's two update operations.                       *)
(***************************************************************************)
C13_Status_In_Enum ==
    \A i \in DOMAIN requests : requests[i].status \in Statuses

C13_Step ==
    \A i \in DOMAIN requests :
        (i \in DOMAIN requests' /\ requests'[i].status # requests[i].status) =>
            resp'.op \in {"admin_update_request", "update_status"}

C13_Original_Status_Enum_Admin_Only == []C13_Status_In_Enum /\ [][C13_Step]_vars

(***************************************************************************)
(* C14 as written.  A successful create_request stores the row with status *)
(* pending, and a row is approved only by a step of one of the             *)
(* administrator's two update operations.                                  *)
(***************************************************************************)
C14_Step ==
    /\ (resp'.op = "create_request" /\ Len(requests') = Len(requests) + 1) =>
          requests'[Len(requests')].status = "pending"
    /\ \A i \in DOMAIN requests' :
          (/\ requests'[i].status = "approved"
           /\ (i \in DOMAIN requests => requests[i].status # "approved")) =>
              resp'.op \in {"admin_update_request", "update_status"}

C14_Original_Created_Pending == [][C14_Step]_vars

(***************************************************************************)
(* C15.  Either update operation of the administrator, for an id that a    *)
(* row has and a status among pending, denied and approved, sets that      *)
(* row's status to it whatever the status was, and changes nothing else;   *)
(* for another status it answers 400 and for an id that no row has 404,    *)
(* and requests is unchanged.                                              *)
(***************************************************************************)
UpdateOutcome(id, st, success) ==
    IF st \notin Statuses
    THEN resp'.code = 400 /\ requests' = requests
    ELSE IF id \notin DOMAIN requests
    THEN resp'.code = 404 /\ requests' = requests
    ELSE /\ resp'.code = success
         /\ requests'[id].status = st
         /\ requests' = [requests EXCEPT ![id].status = st]

C15_Step ==
    \A id \in RequestIds, st \in SentStatuses :
        /\ admin_update_request(ADMIN_SESSION, id, st) => UpdateOutcome(id, st, 303)
        /\ update_status(ADMIN_TOKEN, id, st) => UpdateOutcome(id, st, 200)

C15_Every_Transition_Accepted == [][C15_Step]_vars

\* the administrator's form has just set a status while one request is
\* denied and the other approved
C15_Witness ==
    /\ resp.op = "admin_update_request"
    /\ resp.code = 303
    /\ Len(requests) = 2
    /\ requests[1].status = "denied"
    /\ requests[2].status = "approved"


(***************************************************************************)
(* C16 as written.  The answer of get_messages for a school holds only     *)
(* rows of that school, at most LIST_LIMIT of them and those the ones      *)
(* persisted last, a row persisted later never after one persisted         *)
(* earlier, a deleted row with an empty body and its flag, any other row   *)
(* with its stored body.                                                   *)
(***************************************************************************)
\* fewer than LIST_LIMIT rows of the school were persisted after row id
AmongLast(id, school) ==
    Cardinality({ j \in DOMAIN messages :
                    j > id /\ messages[j].school = school }) < LIST_LIMIT

C16_Original_Most_Recent_First ==
    (resp.op = "get_messages" /\ resp.code = 200) =>
        /\ C9_Listing
        /\ \A k, l \in DOMAIN resp.rows :
              k < l => resp.rows[k].id > resp.rows[l].id
        /\ \A id \in DOMAIN messages :
              (messages[id].school = resp.detail /\ AmongLast(id, resp.detail)) =>
                  \E k \in DOMAIN resp.rows : resp.rows[k].id = id


(***************************************************************************)
(* C17.  disconnect of a channel from a school's partition, in every       *)
(* reachable registry and for every channel and school: it creates and     *)
(* removes no partition, leaves every other school's partition as it is,   *)
(* keeps every other channel of the school in its place, and changes       *)
(* nothing at all when the channel is not registered there (never joined,  *)
(* already left, pruned, or no partition); applying it twice gives what    *)
(* applying it once gives.  The endpoint's leave is such a step.           *)
(***************************************************************************)
LeaveOutcome(after, websocket, school) ==
    /\ DOMAIN after = DOMAIN active_connections
    /\ \A s \in DOMAIN active_connections :
          s # school => after[s] = active_connections[s]
    /\ school \in DOMAIN active_connections =>
          /\ websocket \notin Range(after[school])
          /\ \A c \in Channels \ {websocket} :
                Count(after[school], c) = Count(active_connections[school], c)
    /\ websocket \notin Registered(school) => after = active_connections

C17_Disconnect ==
    \A c \in Channels, s \in Schools :
        LET once == disconnect(active_connections, c, s)
        IN  /\ LeaveOutcome(once, c, s)
            /\ disconnect(once, c, s) = once

C17_Step ==
    \A c \in Channels :
        websocket_disconnect(c) =>
            LeaveOutcome(active_connections', c, sockets[c].school)

C17_Leave_Idempotent == []C17_Disconnect /\ [][C17_Step]_vars

\* a channel that a broadcast pruned has left afterwards or before, while
\* another channel of its school and a channel of the other school stay
\* registered
C17_Witness ==
    \E gone, kept, other \in Channels :
        /\ gone \in Range(last_broadcast.disconnected)
        /\ sockets[gone].pc = "closed"
        /\ kept # gone
        /\ kept \in Registered(sockets[gone].school)
        /\ \E s \in Schools \ {sockets[gone].school} : other \in Registered(s)


(***************************************************************************)
(* C18.  A row enters messages only in a send_message step (the system     *)
(* path apart), and in the state that step starts from its (school,        *)
(* username) has an approved request and no active ban; the step changes   *)
(* neither requests nor chat_bans, and no step that changes requests or    *)
(* chat_bans changes messages: check and insert are one step.              *)
(***************************************************************************)
C18_Step ==
    /\ messages' # messages =>
          /\ Len(messages') = Len(messages) + 1
          /\ SubSeq(messages', 1, Len(messages)) = messages
          /\ resp'.op = "send_message"
          /\ resp'.code = 201
          /\ messages'[Len(messages')].school = resp'.request.school
          /\ messages'[Len(messages')].username = resp'.request.username
          /\ GateAllows(messages'[Len(messages')].school,
                        messages'[Len(messages')].username)
          /\ UNCHANGED <<requests, chat_bans>>
    /\ (requests' # requests \/ chat_bans' # chat_bans) => UNCHANGED messages

C18_Gate_And_Insert_Atomic == [][C18_Step]_vars

\* a sender whose ban was lifted has just posted
C18_Witness ==
    /\ resp.op = "send_message"
    /\ resp.code = 201
    /\ messages # <<>>
    /\ \E b \in Range(chat_bans) :
          /\ b.school = messages[Len(messages)].school
          /\ b.username = messages[Len(messages)].username
          /\ ~b.active


(***************************************************************************)
(* C19.  A channel is registered under the school it joined with and under *)
(* no other, and a broadcast for a school attempts only channels that      *)
(* joined with that school.  A school's partition changes only in a step   *)
(* of one of its own channels (join, leave) or at the end of a broadcast   *)
(* for that school: pruning and leaving in one school never change the     *)
(* partition of another.                                                   *)
(***************************************************************************)
PartitionOf(connections, school) ==
    IF school \in DOMAIN connections THEN connections[school] ELSE <<>>

C19_Isolated ==
    /\ \A s \in Schools : \A c \in Registered(s) : sockets[c].school = s
    /\ \A i \in DOMAIN tasks :
          \A c \in Range(tasks[i].snapshot) \cup Range(tasks[i].attempts)
                      \cup Range(tasks[i].disconnected) :
              sockets[c].school = tasks[i].school
    /\ \A c \in Range(last_broadcast.snapshot) \cup Range(last_broadcast.attempts)
                   \cup Range(last_broadcast.disconnected) :
          sockets[c].school = last_broadcast.school

C19_Step ==
    /\ \A s \in Schools :
          PartitionOf(active_connections', s) # PartitionOf(active_connections, s) =>
              \/ \E c \in Channels :
                    sockets'[c].school = s /\ sockets'[c].pc # sockets[c].pc
              \/ \E i \in DOMAIN tasks : Finishing(i) /\ tasks[i].school = s
    /\ \A i \in DOMAIN tasks :
          Starting(i) =>
              (Len(tasks') = Len(tasks) =>
                  tasks'[i].snapshot = PartitionOf(active_connections, tasks[i].school))
    /\ \A c \in Channels :
          websocket_disconnect(c) =>
              \A s \in Schools \ {sockets[c].school} :
                  PartitionOf(active_connections', s) = PartitionOf(active_connections, s)

C19_Partitions_Isolated == []C19_Isolated /\ [][C19_Step]_vars

\* a broadcast for one school has pruned a channel while a channel of the
\* other school, never attempted, is still registered
C19_Witness ==
    \E c \in Channels, s \in Schools :
        /\ last_broadcast.school \in Schools \ {s}
        /\ last_broadcast.disconnected # <<>>
        /\ c \in Registered(s)
        /\ c \notin Range(last_broadcast.attempts)


(***************************************************************************)
(* C20.  chat_bans has at most one row for a (school, username); a row is  *)
(* never removed and its school and username never change.  A new ban for  *)
(* a pair that has a row leaves chat_bans unchanged, the active flag       *)
(* included, and is answered like any other; for a new pair it appends an  *)
(* active row.  A flag changes only in a toggle step, which negates the    *)
(* flag of that one row, so that a second toggle restores it.              *)
(***************************************************************************)
HasBan(school, username) ==
    \E b \in Range(chat_bans) : b.school = school /\ b.username = username

C20_Unique ==
    \A i, j \in DOMAIN chat_bans :
        (/\ chat_bans[i].school = chat_bans[j].school
         /\ chat_bans[i].username = chat_bans[j].username) => i = j

C20_Step ==
    /\ \A i \in DOMAIN chat_bans :
          /\ i \in DOMAIN chat_bans'
          /\ chat_bans'[i].school = chat_bans[i].school
          /\ chat_bans'[i].username = chat_bans[i].username
          /\ chat_bans'[i].active # chat_bans[i].active =>
                /\ resp'.op = "admin_toggle_ban"
                /\ resp'.code = 303
                /\ chat_bans' = [chat_bans EXCEPT ![i].active = ~chat_bans[i].active]
                /\ [chat_bans' EXCEPT ![i].active = ~chat_bans'[i].active] = chat_bans
    /\ \A id \in DOMAIN chat_bans :
          admin_toggle_ban(ADMIN_SESSION, id) =>
              chat_bans'[id].active = ~chat_bans[id].active
    /\ \A t \in BanTargets :
          admin_new_ban(ADMIN_SESSION, t[2], t[1]) =>
              /\ resp'.code = 303
              /\ IF HasBan(t[1], t[2])
                 THEN chat_bans' = chat_bans
                 ELSE chat_bans' = Append(chat_bans,
                          [school |-> t[1], username |-> t[2], active |-> TRUE])

C20_One_Ban_Per_Pair == []C20_Unique /\ [][C20_Step]_vars

\* every pair has a lifted ban and a further new ban was answered: it did not
\* activate any of them
C20_Witness ==
    /\ resp.op = "admin_new_ban"
    /\ resp.code = 303
    /\ Len(chat_bans) = Cardinality(BanTargets)
    /\ \A b \in Range(chat_bans) : ~b.active


(***************************************************************************)
(* C21 as written.  A row enters messages with the username SYSTEM, and a  *)
(* message_new event with the username SYSTEM is created, only in a step   *)
(* of admin_system_message: no create_request or send_message step stores  *)
(* or announces a message attributed to SYSTEM.                            *)
(***************************************************************************)
C21_Step ==
    /\ \A i \in DOMAIN messages' :
          (i \notin DOMAIN messages /\ messages'[i].username = SYSTEM) =>
              resp'.op = "admin_system_message"
    /\ (/\ TaskCreated
        /\ NewTask.event.type = "message_new"
        /\ NewTask.event.username = SYSTEM) =>
          resp'.op = "admin_system_message"

C21_Original_System_Only_By_Admin == [][C21_Step]_vars

=============================================================================
